---- MODULE Spec2Model ----
(***************************************************************************)
(* TubeTime transcription worker (huggingface-space/app.py) and the        *)
(* cookie filter script (filter_active_cookies.py).                        *)
(*                                                                         *)
(* Strings are sequences of one-character strings.  The character "Y"      *)
(* stands for the substring ".youtube.com"; "x", "a".."h" are ordinary     *)
(* characters.                                                             *)
(***************************************************************************)
EXTENDS Integers, Sequences, FiniteSets, TLC

(* ------------------------------ bounds --------------------------------- *)
NumRequests == 2
MaxLines == 2
MaxTail == 2

(* ------------------------- program constants --------------------------- *)
MAX_DURATION_SECONDS == 900
SampleLines == 10
SHARED_SECRET == <<"s">>
BearerPrefix == <<"B", "e", "a", "r", "e", "r", " ">>
COMMENT_CHAR == "#"
TAB == "\t"
NL == "\n"
YT == "Y"

(* ------------------------------- state --------------------------------- *)
\* request handler (huggingface-space/app.py)
VARIABLES
  loop,           \* request whose handler the event loop is running, 0 when idle
  pc,             \* position of each request's handler
  authorization,  \* Authorization header of each request
  status,         \* HTTP status of the response, 0 until the handler ends
  exc,            \* exception in flight in the handler
  cause,          \* raise site of the exception that left the try body
  dirExists,      \* the directory made by tempfile.mkdtemp exists on disk
  dirMade,        \* mkdtemp has been called for the request
  files,          \* files in the request's temporary directory
  rmFailed,       \* a removal in the finally block raised OSError
  wav_path,       \* the handler's local wav_path (None until _download_audio returns)
  duration,       \* the duration _download_audio settled on
  dlCalls,        \* calls of ydl.extract_info made for the request
  dlFailed,       \* calls of ydl.extract_info that raised
  asrCalls,       \* calls of the pipeline made for the request
  sawNone,        \* get_asr_pipeline found the global to be None
  usedInstance,   \* pipeline instance the request transcribed with
  asr_pipeline,   \* the module global, 0 for None
  constructions,  \* pipeline instances constructed in the process
  healthServed    \* a GET / request has been answered

hvars == <<loop, pc, authorization, status, exc, cause, dirExists, dirMade, files,
           rmFailed, wav_path, duration, dlCalls, dlFailed, asrCalls, sawNone,
           usedInstance, asr_pipeline, constructions, healthServed>>

\* filter_active_cookies.py
VARIABLES
  input_file,      \* the lines of the input file, each with its line terminator
  current_time,    \* int(time.time()) at the start of the run
  fpc,             \* position of the script
  next_line,       \* index of the line the read loop takes next
  header_lines,
  active_cookies,
  expired_count,
  active_count,
  output_file,     \* the strings written to the output file, in order
  printed          \* the counts the script prints

fvars == <<input_file, current_time, fpc, next_line, header_lines, active_cookies,
           expired_count, active_count, output_file, printed>>

\* cookie store loader (huggingface-space/app.py, _download_audio)
VARIABLES
  youtube_cookies,  \* the decoded YOUTUBE_COOKIES secret
  lpc,              \* position of the loader
  has_tabs,
  cookie_content,
  cookie_file       \* content of cookies.txt, None while not written

lvars == <<youtube_cookies, lpc, has_tabs, cookie_content, cookie_file>>

vars == <<hvars, fvars, lvars>>

(* ------------------------- string operations --------------------------- *)
IsSpace(c) == c \in {" ", "\t", "\n", "\r"}

RECURSIVE LStrip(_)
LStrip(s) == IF s = <<>> THEN s
             ELSE IF IsSpace(Head(s)) THEN LStrip(Tail(s)) ELSE s

RECURSIVE RStrip(_)
RStrip(s) == IF s = <<>> THEN s
             ELSE IF IsSpace(s[Len(s)]) THEN RStrip(SubSeq(s, 1, Len(s) - 1)) ELSE s

Strip(s) == RStrip(LStrip(s))

StartsWith(s, p) == Len(s) >= Len(p) /\ SubSeq(s, 1, Len(p)) = p

Contains(s, c) == \E i \in 1..Len(s) : s[i] = c

CountChar(s, c) == Cardinality({i \in 1..Len(s) : s[i] = c})

FirstIndex(s, c) == CHOOSE i \in 1..Len(s) : s[i] = c /\ \A j \in 1..(i - 1) : s[j] # c

\* str.split(sep): every occurrence of sep separates two (possibly empty) fields
RECURSIVE SplitOn(_, _)
SplitOn(s, c) == IF ~Contains(s, c) THEN <<s>>
                 ELSE LET i == FirstIndex(s, c)
                      IN <<SubSeq(s, 1, i - 1)>> \o SplitOn(SubSeq(s, i + 1, Len(s)), c)

\* str.split(sep, 1)[1]: everything after the first occurrence of sep
AfterFirst(s, c) == SubSeq(s, FirstIndex(s, c) + 1, Len(s))

\* str.split(): maximal runs of non-whitespace characters
RECURSIVE SplitWs(_)
SplitWs(s) ==
  LET t == LStrip(s)
  IN IF t = <<>> THEN <<>>
     ELSE LET ends == {i \in 1..Len(t) : IsSpace(t[i])}
              n == IF ends = {} THEN Len(t)
                   ELSE (CHOOSE i \in ends : \A j \in ends : i <= j) - 1
          IN <<SubSeq(t, 1, n)>> \o SplitWs(SubSeq(t, n + 1, Len(t)))

\* sep.join(parts)
RECURSIVE Join(_, _)
Join(parts, sep) == IF parts = <<>> THEN <<>>
                    ELSE IF Len(parts) = 1 THEN parts[1]
                    ELSE parts[1] \o sep \o Join(Tail(parts), sep)

\* parts[:n]
Take(parts, n) == SubSeq(parts, 1, IF Len(parts) < n THEN Len(parts) ELSE n)

\* parts[n:]  (0-based n)
Drop(parts, n) == SubSeq(parts, n + 1, Len(parts))

Digits == {"0", "1", "2", "3", "4", "5", "6", "7", "8", "9"}

DigitVal(c) == CASE c = "0" -> 0 [] c = "1" -> 1 [] c = "2" -> 2 [] c = "3" -> 3
                 [] c = "4" -> 4 [] c = "5" -> 5 [] c = "6" -> 6 [] c = "7" -> 7
                 [] c = "8" -> 8 [] c = "9" -> 9

RECURSIVE DecVal(_)
DecVal(d) == IF d = <<>> THEN 0 ELSE 10 * DecVal(SubSeq(d, 1, Len(d) - 1)) + DigitVal(d[Len(d)])

\* int(text): surrounding whitespace ignored, optional sign, decimal digits;
\* anything else raises ValueError
IntBody(f) == LET t == Strip(f)
              IN IF t # <<>> /\ Head(t) \in {"-", "+"} THEN Tail(t) ELSE t

IntParses(f) == LET b == IntBody(f)
                IN b # <<>> /\ \A i \in 1..Len(b) : b[i] \in Digits

IntOf(f) == LET t == Strip(f)
            IN IF Head(t) = "-" THEN 0 - DecVal(IntBody(f)) ELSE DecVal(IntBody(f))

(* ------------------------------ optionals ------------------------------ *)
\* Python's None is <<>>, any other value v is <<v>>
NoneVal == <<>>
Some(v) == <<v>>
IsNone(o) == o = <<>>
ValOf(o) == o[1]

(* ---------------------------- request handler -------------------------- *)
Reqs == 1..NumRequests

NoExc == [kind |-> "none", code |-> 0]
HTTPException(code) == [kind |-> "HTTPException", code |-> code]
DownloadError == [kind |-> "DownloadError", code |-> 0]
OtherException == [kind |-> "Exception", code |-> 0]

\* Authorization headers a client may send
HeaderSet ==
  { NoneVal,
    Some(<<>>),
    Some(BearerPrefix \o SHARED_SECRET),
    Some(BearerPrefix \o <<" ">> \o SHARED_SECRET \o <<" ">>),
    Some(BearerPrefix \o <<"x">>),
    Some(BearerPrefix),
    Some(<<"B", "e", "a", "r", "e", "r">> \o SHARED_SECRET),
    Some(<<"B", "a", "s", "i", "c", " ">> \o SHARED_SECRET) }

\* durations (seconds) the downloader or the WAV probe may report
DurationSet == {0, MAX_DURATION_SECONDS, MAX_DURATION_SECONDS + 1}

HInit ==
  /\ loop = 0
  /\ pc = [r \in Reqs |-> "idle"]
  /\ authorization = [r \in Reqs |-> NoneVal]
  /\ status = [r \in Reqs |-> 0]
  /\ exc = [r \in Reqs |-> NoExc]
  /\ cause = [r \in Reqs |-> "none"]
  /\ dirExists = [r \in Reqs |-> FALSE]
  /\ dirMade = [r \in Reqs |-> FALSE]
  /\ files = [r \in Reqs |-> {}]
  /\ rmFailed = [r \in Reqs |-> FALSE]
  /\ wav_path = [r \in Reqs |-> NoneVal]
  /\ duration = [r \in Reqs |-> NoneVal]
  /\ dlCalls = [r \in Reqs |-> 0]
  /\ dlFailed = [r \in Reqs |-> 0]
  /\ asrCalls = [r \in Reqs |-> 0]
  /\ sawNone = [r \in Reqs |-> FALSE]
  /\ usedInstance = [r \in Reqs |-> 0]
  /\ asr_pipeline = 0
  /\ constructions = 0
  /\ healthServed = FALSE

\* handlers run on worker threads (def instead of async def)
MayRunThreaded(r) == TRUE

\* transcribe and health are coroutines (async def) whose bodies never await:
\* the event loop runs one handler from its first statement to its return
MayRun(r) == loop \in {0, r}

\* _validate_bearer_token's test
TokenOf(a) == Strip(AfterFirst(a, " "))

\* the token is not compared with the secret
BearerValidAnyToken(h) ==
  /\ ~IsNone(h)
  /\ ValOf(h) # <<>>
  /\ StartsWith(ValOf(h), BearerPrefix)

BearerValid(h) ==
  /\ ~IsNone(h)
  /\ ValOf(h) # <<>>
  /\ StartsWith(ValOf(h), BearerPrefix)
  /\ TokenOf(ValOf(h)) = SHARED_SECRET

\* groups of variables an action leaves alone
diskVars == <<dirExists, dirMade, files, rmFailed>>
fetchVars == <<wav_path, duration, dlCalls, dlFailed>>
engineVars == <<asrCalls, sawNone, usedInstance, asr_pipeline, constructions>>

\* a POST /transcribe request reaches the handler
Receive(r) ==
  /\ pc[r] = "idle"
  /\ MayRun(r)
  /\ \E h \in HeaderSet : authorization' = [authorization EXCEPT ![r] = h]
  /\ loop' = r
  /\ pc' = [pc EXCEPT ![r] = "validate"]
  /\ UNCHANGED <<status, exc, cause, diskVars, fetchVars, engineVars, healthServed, fvars, lvars>>

\* line 276: raised outside the try statement, so neither except nor finally runs
ValidateBearerToken(r) ==
  /\ pc[r] = "validate"
  /\ MayRun(r)
  /\ IF BearerValid(authorization[r])
       THEN /\ pc' = [pc EXCEPT ![r] = "mkdtemp"]
            /\ UNCHANGED <<status, cause, loop>>
       ELSE /\ pc' = [pc EXCEPT ![r] = "done"]
            /\ status' = [status EXCEPT ![r] = 401]
            /\ cause' = [cause EXCEPT ![r] = "auth"]
            /\ loop' = 0
  /\ authorization' = [authorization EXCEPT ![r] = IF BearerValid(@) THEN @ ELSE NoneVal]
  /\ UNCHANGED <<exc, diskVars, fetchVars, engineVars, healthServed, fvars, lvars>>

\* _download_audio, line 63
Mkdtemp(r) ==
  /\ pc[r] = "mkdtemp"
  /\ MayRun(r)
  /\ dirExists' = [dirExists EXCEPT ![r] = TRUE]
  /\ dirMade' = [dirMade EXCEPT ![r] = TRUE]
  /\ pc' = [pc EXCEPT ![r] = "cookies"]
  /\ UNCHANGED <<loop, authorization, status, exc, cause, files, rmFailed, fetchVars,
                 engineVars, healthServed, fvars, lvars>>

\* _download_audio, lines 89-181: YOUTUBE_COOKIES unset or blank writes nothing;
\* otherwise cookies.txt is written, and a failure of the write is logged and
\* swallowed, with the file created or not
WriteCookies(r) ==
  /\ pc[r] = "cookies"
  /\ MayRun(r)
  /\ \E written \in BOOLEAN :
       files' = [files EXCEPT ![r] = IF written THEN @ \cup {"cookies.txt"} ELSE @]
  /\ pc' = [pc EXCEPT ![r] = "extract_url"]
  /\ UNCHANGED <<loop, authorization, status, exc, cause, dirExists, dirMade, rmFailed,
                 fetchVars, engineVars, healthServed, fvars, lvars>>

\* what one call of ydl.extract_info(..., download=True) leaves in the
\* directory: on success the extracted WAV, unless the postprocessor produced
\* none; on failure nothing
Produced(ok) == IF ok THEN {{"wav"}, {}} ELSE {{}}

\* the failed call is repeated
OnUrlFailureRetry == "extract_url"

\* _download_audio, lines 190-193: where a failure of the first call leads
OnUrlFailure == "extract_id"

\* _download_audio, lines 187-192: the call with the full URL; every Exception
\* it raises is caught and answered by the call with the bare video id
ExtractInfoUrl(r) ==
  /\ pc[r] = "extract_url"
  /\ MayRun(r)
  /\ dlCalls' = [dlCalls EXCEPT ![r] = @ + 1]
  /\ \E ok \in BOOLEAN :
       /\ \E made \in Produced(ok) : files' = [files EXCEPT ![r] = @ \cup made]
       /\ IF ok
            THEN /\ pc' = [pc EXCEPT ![r] = "downloaded"]
                 /\ UNCHANGED dlFailed
            ELSE /\ dlFailed' = [dlFailed EXCEPT ![r] = @ + 1]
                 /\ pc' = [pc EXCEPT ![r] = OnUrlFailure]
  /\ UNCHANGED <<loop, authorization, status, exc, cause, dirExists, dirMade, rmFailed,
                 wav_path, duration, engineVars, healthServed, fvars, lvars>>

\* _download_audio, line 193: the fallback call; what it raises leaves
\* _download_audio
ExtractInfoId(r) ==
  /\ pc[r] = "extract_id"
  /\ MayRun(r)
  /\ dlCalls' = [dlCalls EXCEPT ![r] = @ + 1]
  /\ \E outcome \in {"ok", "DownloadError", "Exception"} :
       /\ \E made \in Produced(outcome = "ok") : files' = [files EXCEPT ![r] = @ \cup made]
       /\ IF outcome = "ok"
            THEN /\ pc' = [pc EXCEPT ![r] = "downloaded"]
                 /\ UNCHANGED <<dlFailed, exc, cause>>
            ELSE /\ dlFailed' = [dlFailed EXCEPT ![r] = @ + 1]
                 /\ exc' = [exc EXCEPT ![r] = IF outcome = "DownloadError"
                                                THEN DownloadError ELSE OtherException]
                 /\ cause' = [cause EXCEPT ![r] = IF outcome = "DownloadError"
                                                    THEN "download" ELSE "download_other"]
                 /\ pc' = [pc EXCEPT ![r] = "except"]
  /\ UNCHANGED <<loop, authorization, status, dirExists, dirMade, rmFailed,
                 wav_path, duration, engineVars, healthServed, fvars, lvars>>

\* Python truth value of a duration: None and 0 are false
Truthy(d) == ~IsNone(d) /\ ValOf(d) # 0

\* the limit itself is rejected
OverLimitInclusive(d) == Truthy(d) /\ ValOf(d) >= MAX_DURATION_SECONDS

\* _download_audio, line 201: the limit test
OverLimit(d) == Truthy(d) /\ ValOf(d) > MAX_DURATION_SECONDS

\* _download_audio, lines 201-207, and the assignment of line 283
CheckDuration(r, d) ==
  /\ duration' = [duration EXCEPT ![r] = d]
  /\ IF OverLimit(d)
       THEN /\ exc' = [exc EXCEPT ![r] = HTTPException(400)]
            /\ cause' = [cause EXCEPT ![r] = "duration"]
            /\ pc' = [pc EXCEPT ![r] = "except"]
            /\ UNCHANGED wav_path
       ELSE /\ wav_path' = [wav_path EXCEPT ![r] = Some("wav")]
            /\ pc' = [pc EXCEPT ![r] = "asr_test"]
            /\ UNCHANGED <<exc, cause>>

\* _download_audio, lines 195-207 and _probe_duration: the WAV must exist; the
\* duration is the one in the downloader's metadata (info) or, when that is None
\* or 0, the one read from the WAV file (sf.read may raise)
FinishDownload(r) ==
  /\ pc[r] = "downloaded"
  /\ MayRun(r)
  /\ IF "wav" \notin files[r]
       THEN /\ exc' = [exc EXCEPT ![r] = OtherException]
            /\ cause' = [cause EXCEPT ![r] = "no_wav"]
            /\ pc' = [pc EXCEPT ![r] = "except"]
            /\ UNCHANGED <<wav_path, duration>>
       ELSE \E info \in {NoneVal} \cup {Some(x) : x \in DurationSet} :
              IF Truthy(info)
                THEN CheckDuration(r, info)
                ELSE \/ \E probed \in DurationSet : CheckDuration(r, Some(probed))
                     \/ /\ exc' = [exc EXCEPT ![r] = OtherException]
                        /\ cause' = [cause EXCEPT ![r] = "probe"]
                        /\ pc' = [pc EXCEPT ![r] = "except"]
                        /\ UNCHANGED <<wav_path, duration>>
  /\ UNCHANGED <<loop, authorization, status, diskVars, dlCalls, dlFailed, engineVars,
                 healthServed, fvars, lvars>>

\* get_asr_pipeline, line 29: the test of the module global
GetAsrPipeline(r) ==
  /\ pc[r] = "asr_test"
  /\ MayRun(r)
  /\ sawNone' = [sawNone EXCEPT ![r] = (asr_pipeline = 0)]
  /\ IF asr_pipeline = 0
       THEN /\ pc' = [pc EXCEPT ![r] = "asr_init"]
            /\ UNCHANGED usedInstance
       ELSE /\ pc' = [pc EXCEPT ![r] = "asr_call"]
            /\ usedInstance' = [usedInstance EXCEPT ![r] = asr_pipeline]
  /\ UNCHANGED <<loop, authorization, status, exc, cause, diskVars, fetchVars, asrCalls,
                 asr_pipeline, constructions, healthServed, fvars, lvars>>

\* get_asr_pipeline, lines 30-38: pipeline(...) builds a new instance, which is
\* assigned to the global and returned; a failure to build it (model download)
\* leaves the global None
ConstructPipeline(r) ==
  /\ pc[r] = "asr_init"
  /\ MayRun(r)
  /\ \/ /\ constructions' = constructions + 1
        /\ asr_pipeline' = constructions + 1
        /\ usedInstance' = [usedInstance EXCEPT ![r] = constructions + 1]
        /\ pc' = [pc EXCEPT ![r] = "asr_call"]
        /\ UNCHANGED <<exc, cause>>
     \/ /\ exc' = [exc EXCEPT ![r] = OtherException]
        /\ cause' = [cause EXCEPT ![r] = "engine_init"]
        /\ pc' = [pc EXCEPT ![r] = "except"]
        /\ UNCHANGED <<constructions, asr_pipeline, usedInstance>>
  /\ UNCHANGED <<loop, authorization, status, diskVars, fetchVars, asrCalls, sawNone,
                 healthServed, fvars, lvars>>

\* _transcribe_audio, lines 225-242: the one call of the pipeline, on either
\* branch of is_english_only
PipelineCall(r) ==
  /\ pc[r] = "asr_call"
  /\ MayRun(r)
  /\ asrCalls' = [asrCalls EXCEPT ![r] = @ + 1]
  /\ \/ /\ pc' = [pc EXCEPT ![r] = "respond"]
        /\ UNCHANGED <<exc, cause>>
     \/ /\ exc' = [exc EXCEPT ![r] = OtherException]
        /\ cause' = [cause EXCEPT ![r] = "engine"]
        /\ pc' = [pc EXCEPT ![r] = "except"]
  /\ UNCHANGED <<loop, authorization, status, diskVars, fetchVars, sawNone, usedInstance,
                 asr_pipeline, constructions, healthServed, fvars, lvars>>

\* transcribe, lines 289-311: the response record is built and returned
Respond(r) ==
  /\ pc[r] = "respond"
  /\ MayRun(r)
  /\ pc' = [pc EXCEPT ![r] = "finally"]
  /\ UNCHANGED <<loop, authorization, status, exc, cause, diskVars, fetchVars, engineVars,
                 healthServed, fvars, lvars>>

\* the except clause for DownloadError is missing
MapExceptionNoDownloadClause(e) ==
  IF e.kind = "HTTPException" THEN e ELSE HTTPException(500)

\* transcribe, lines 312-322: the except clauses
MapException(e) ==
  IF e.kind = "DownloadError" THEN HTTPException(404)
  ELSE IF e.kind = "HTTPException" THEN e
  ELSE HTTPException(500)

HandleException(r) ==
  /\ pc[r] = "except"
  /\ MayRun(r)
  /\ exc' = [exc EXCEPT ![r] = MapException(exc[r])]
  /\ pc' = [pc EXCEPT ![r] = "finally"]
  /\ UNCHANGED <<loop, authorization, status, cause, diskVars, fetchVars, engineVars,
                 healthServed, fvars, lvars>>

\* the handler's parameters and locals end with its frame
FrameDiscarded(r) ==
  /\ authorization' = [authorization EXCEPT ![r] = NoneVal]
  /\ exc' = [exc EXCEPT ![r] = NoExc]
  /\ wav_path' = [wav_path EXCEPT ![r] = NoneVal]
  /\ duration' = [duration EXCEPT ![r] = NoneVal]
  /\ sawNone' = [sawNone EXCEPT ![r] = FALSE]

\* transcribe, line 325: the condition under which the finally block cleans up
CleanupRuns(r) == ~IsNone(wav_path[r]) /\ dirExists[r]

\* transcribe, lines 323-332, and the handler's end: the response leaves with
\* the returned record (200) or with the HTTPException in flight
Finally(r) ==
  /\ pc[r] = "finally"
  /\ MayRun(r)
  /\ IF CleanupRuns(r)
       THEN \/ /\ files' = [files EXCEPT ![r] = {}]
               /\ dirExists' = [dirExists EXCEPT ![r] = FALSE]
               /\ UNCHANGED rmFailed
            \/ /\ \E left \in SUBSET files[r] : files' = [files EXCEPT ![r] = left]
               /\ rmFailed' = [rmFailed EXCEPT ![r] = TRUE]
               /\ UNCHANGED dirExists
       ELSE UNCHANGED <<files, dirExists, rmFailed>>
  /\ status' = [status EXCEPT ![r] = IF exc[r] = NoExc THEN 200 ELSE exc[r].code]
  /\ pc' = [pc EXCEPT ![r] = "done"]
  /\ loop' = 0
  /\ FrameDiscarded(r)
  /\ UNCHANGED <<cause, dirMade, dlCalls, dlFailed, asrCalls, usedInstance, asr_pipeline,
                 constructions, healthServed, fvars, lvars>>

\* health, lines 245-269: GET / reads the environment and nothing else
Health ==
  /\ loop = 0
  /\ healthServed' = TRUE
  /\ UNCHANGED <<loop, pc, authorization, status, exc, cause, diskVars, fetchVars,
                 engineVars, fvars, lvars>>

HNext ==
  \/ \E r \in Reqs : Receive(r)
  \/ \E r \in Reqs : ValidateBearerToken(r)
  \/ \E r \in Reqs : Mkdtemp(r)
  \/ \E r \in Reqs : WriteCookies(r)
  \/ \E r \in Reqs : ExtractInfoUrl(r)
  \/ \E r \in Reqs : ExtractInfoId(r)
  \/ \E r \in Reqs : FinishDownload(r)
  \/ \E r \in Reqs : GetAsrPipeline(r)
  \/ \E r \in Reqs : ConstructPipeline(r)
  \/ \E r \in Reqs : PipelineCall(r)
  \/ \E r \in Reqs : Respond(r)
  \/ \E r \in Reqs : HandleException(r)
  \/ \E r \in Reqs : Finally(r)
  \/ Health


(* ------------------- filter_active_cookies.py -------------------------- *)
\* a Netscape cookie record: domain, flag, path, secure, expiry, name, value
CookieLine(domain, expiry) ==
  Join(<<domain, <<"x">>, <<"x">>, <<"x">>, expiry, <<"x">>, <<"x">>>>, <<TAB>>) \o <<NL>>

\* domains: .youtube.com, another site, and #HttpOnly_.youtube.com
DomainSet == {<<YT>>, <<"x">>, <<COMMENT_CHAR, YT>>}

\* expiry fields: session cookie, two epoch times, and text that is no number
ExpirySet == {<<"0">>, <<"1">>, <<"1", "0">>, <<"x">>}

\* times at which the script runs
NowSet == {1, 2}

LineSet ==
  {CookieLine(d, e) : d \in DomainSet, e \in ExpirySet}
  \cup { <<COMMENT_CHAR, " ", "x", NL>>,
         <<NL>>,
         <<YT, TAB, "x", NL>>,
         <<"x", TAB, "x", NL>>,
         <<TAB, YT, TAB, "x", TAB, "x", TAB, "1", TAB, "0", TAB, "x", TAB, "x", TAB, "x", NL>> }

FileSet == UNION {[1..n -> LineSet] : n \in 0..MaxLines}

FilterIdle ==
  /\ input_file = <<>>
  /\ current_time = 0
  /\ fpc = "off"
  /\ next_line = 1
  /\ header_lines = <<>>
  /\ active_cookies = <<>>
  /\ expired_count = 0
  /\ active_count = 0
  /\ output_file = <<>>
  /\ printed = [active |-> 0, expired |-> 0]

\* lines 12-16
FilterInit ==
  /\ input_file \in FileSet
  /\ current_time \in NowSet
  /\ fpc = "read"
  /\ next_line = 1
  /\ header_lines = <<>>
  /\ active_cookies = <<>>
  /\ expired_count = 0
  /\ active_count = 0
  /\ output_file = <<>>
  /\ printed = [active |-> 0, expired |-> 0]

\* line 21
IsHeader(line) == line # <<>> /\ Head(line) = COMMENT_CHAR

\* line 26
CookieParts(line) == SplitOn(Strip(line), TAB)

\* a cookie expiring this very second is kept
IsActiveInclusive(domain, expiry, now) ==
  Contains(domain, YT) /\ (expiry = 0 \/ expiry >= now)

\* line 33
IsActive(domain, expiry, now) ==
  Contains(domain, YT) /\ (expiry = 0 \/ expiry > now)

\* lines 27-46: "keep", "expired" or "drop" for a line that is no header
Classify(line, now) ==
  LET parts == CookieParts(line)
  IN IF Len(parts) >= 5
       THEN IF IntParses(parts[5])
              THEN IF IsActive(parts[1], IntOf(parts[5]), now) THEN "keep" ELSE "expired"
              ELSE IF Contains(line, YT) THEN "keep" ELSE "drop"
       ELSE IF Contains(line, YT) THEN "keep" ELSE "drop"

\* lines 19-46: one iteration of the read loop
FilterReadLine ==
  /\ fpc = "read"
  /\ next_line <= Len(input_file)
  /\ LET line == input_file[next_line]
     IN IF IsHeader(line)
          THEN /\ header_lines' = Append(header_lines, line)
               /\ UNCHANGED <<active_cookies, active_count, expired_count>>
          ELSE LET c == Classify(line, current_time)
               IN /\ active_cookies' = IF c = "keep" THEN Append(active_cookies, line)
                                       ELSE active_cookies
                  /\ active_count' = IF c = "keep" THEN active_count + 1 ELSE active_count
                  /\ expired_count' = IF c = "expired" THEN expired_count + 1
                                      ELSE expired_count
                  /\ UNCHANGED header_lines
  /\ next_line' = next_line + 1
  /\ UNCHANGED <<input_file, current_time, fpc, output_file, printed, hvars, lvars>>

\* the cookies are written before the headers
WrittenCookiesFirst(headers, cookies) == cookies \o headers

\* lines 49-56: what the script writes
Written(headers, cookies) == headers \o cookies

FilterWrite ==
  /\ fpc = "read"
  /\ next_line > Len(input_file)
  /\ output_file' = Written(header_lines, active_cookies)
  /\ fpc' = "print"
  /\ UNCHANGED <<input_file, current_time, next_line, header_lines, active_cookies,
                 expired_count, active_count, printed, hvars, lvars>>

\* lines 58-61
FilterPrint ==
  /\ fpc = "print"
  /\ printed' = [active |-> active_count, expired |-> expired_count]
  /\ fpc' = "done"
  /\ UNCHANGED <<input_file, current_time, next_line, header_lines, active_cookies,
                 expired_count, active_count, output_file, hvars, lvars>>

FilterNext == FilterReadLine \/ FilterWrite \/ FilterPrint

(* --------------- cookie store loader (_download_audio) ----------------- *)
\* one-character fields separated by single spaces
Spaced(tokens) == Join([i \in 1..Len(tokens) |-> <<tokens[i]>>], <<" ">>)

\* lines of a cookie secret, without their terminator
LoaderLineSet ==
  { Spaced(<<"a", "b", "c", "d", "e", "f", "g", "h">>),
    <<"a", " ", " ">> \o Spaced(<<"b", "c", "d", "e", "f", "g">>) \o <<"\r">>,
    Spaced(<<"a", "b", "c", "d", "e", "f">>),
    <<"a", " ", " ", "b", " ", "c">>,
    <<"a", TAB, "b", TAB, "c", TAB, "d", TAB, "e", TAB, "f", TAB, "g">>,
    <<"a", TAB>> \o Spaced(<<"b", "c", "d", "e", "f", "g", "h">>),
    <<COMMENT_CHAR, " ", "a">>,
    <<" ", COMMENT_CHAR, "a">>,
    <<>>,
    <<" ">>,
    <<TAB>> }

\* lines that precede the varied ones: comments, or records without tabs
FillerSet == {<<COMMENT_CHAR>>, Spaced(<<"a", "b", "c", "d", "e", "f", "g">>)}

Repeat(line, n) == [i \in 1..n |-> line]

ContentSet ==
  { Join(Repeat(f, n) \o tail, <<NL>>) :
      f \in FillerSet,
      n \in {0, SampleLines - 1, SampleLines},
      tail \in UNION {[1..k -> LoaderLineSet] : k \in 1..MaxTail} }

LoaderIdle ==
  /\ youtube_cookies = <<>>
  /\ lpc = "off"
  /\ has_tabs = FALSE
  /\ cookie_content = <<>>
  /\ cookie_file = NoneVal

LoaderInit ==
  /\ youtube_cookies \in ContentSet
  /\ lpc = "check"
  /\ has_tabs = FALSE
  /\ cookie_content = <<>>
  /\ cookie_file = NoneVal

\* lines 126 and 142: the line is neither blank nor a comment
IsCookieLine(line) ==
  Strip(line) # <<>> /\ ~StartsWith(Strip(line), <<COMMENT_CHAR>>)

\* lines 122-132
HasTabs(content) ==
  LET sample_lines == Take(SplitOn(content, NL), SampleLines)
  IN \E i \in 1..Len(sample_lines) :
       IsCookieLine(sample_lines[i]) /\ CountChar(sample_lines[i], TAB) > 0

\* every token is joined by a tab, the value's spaces included
RestoreLineAllTabs(line) ==
  IF IsCookieLine(line)
    THEN LET parts == SplitWs(line)
         IN IF Len(parts) >= 6 THEN Join(parts, <<TAB>>) ELSE line
    ELSE line

\* lines 142-159
RestoreLine(line) ==
  IF IsCookieLine(line)
    THEN LET parts == SplitWs(line)
         IN IF Len(parts) >= 7
              THEN Join(Take(parts, 5), <<TAB>>) \o <<TAB>> \o parts[6] \o <<TAB>>
                     \o Join(Drop(parts, 6), <<" ">>)
              ELSE IF Len(parts) >= 6
                     THEN Join(Take(parts, 5), <<TAB>>) \o <<TAB>> \o parts[6]
                     ELSE line
    ELSE line

\* lines 139-160
Restore(content) ==
  LET lines == SplitOn(content, NL)
  IN Join([i \in 1..Len(lines) |-> RestoreLine(lines[i])], <<NL>>)

\* line 110
LoaderCheck ==
  /\ lpc = "check"
  /\ lpc' = IF youtube_cookies # <<>> /\ Strip(youtube_cookies) # <<>>
              THEN "detect" ELSE "skipped"
  /\ UNCHANGED <<youtube_cookies, has_tabs, cookie_content, cookie_file, hvars, fvars>>

\* lines 118-132
LoaderDetect ==
  /\ lpc = "detect"
  /\ cookie_content' = youtube_cookies
  /\ has_tabs' = HasTabs(youtube_cookies)
  /\ lpc' = "restore"
  /\ UNCHANGED <<youtube_cookies, cookie_file, hvars, fvars>>

\* lines 134-163
LoaderRestore ==
  /\ lpc = "restore"
  /\ cookie_content' = IF ~has_tabs THEN Restore(cookie_content) ELSE cookie_content
  /\ lpc' = "write"
  /\ UNCHANGED <<youtube_cookies, has_tabs, cookie_file, hvars, fvars>>

\* lines 165-166
LoaderWrite ==
  /\ lpc = "write"
  /\ cookie_file' = Some(cookie_content)
  /\ lpc' = "done"
  /\ UNCHANGED <<youtube_cookies, has_tabs, cookie_content, hvars, fvars>>

LoaderNext == LoaderCheck \/ LoaderDetect \/ LoaderRestore \/ LoaderWrite

(* --------------------------- specifications ---------------------------- *)
\* the worker process serving requests
Init == HInit /\ FilterIdle /\ LoaderIdle
Next == HNext
Spec == Init /\ [][Next]_vars

\* one run of the filter script
InitFilter == HInit /\ FilterInit /\ LoaderIdle
SpecFilter == InitFilter /\ [][FilterNext]_vars

\* one run of the cookie store loader
InitLoader == HInit /\ FilterIdle /\ LoaderInit
SpecLoader == InitLoader /\ [][LoaderNext]_vars

(* ------------------------ claims: request handler ---------------------- *)
Range(f) == {f[i] : i \in DOMAIN f}

\* C1: once the handler of a request that passed authentication has returned,
\* with 200 or with any error response, the request's temporary directory and
\* every file in it are gone from disk, provided no removal failed.
C1_TempFilesRemoved ==
  \A r \in Reqs :
    (pc[r] = "done" /\ dirMade[r] /\ ~rmFailed[r]) => (~dirExists[r] /\ files[r] = {})

\* the header has no Bearer credential equal to the shared secret
C2_Unauthorized(h) ==
  \/ IsNone(h)
  \/ ~StartsWith(ValOf(h), BearerPrefix)
  \/ TokenOf(ValOf(h)) # SHARED_SECRET

C2_NothingDone(r) ==
  /\ ~dirMade[r] /\ ~dirExists[r] /\ files[r] = {}
  /\ dlCalls[r] = 0
  /\ asrCalls[r] = 0 /\ usedInstance[r] = 0 /\ ~sawNone[r]

\* C2: a request whose Authorization header is absent, lacks the "Bearer "
\* prefix or carries another token than the shared secret ends with 401, and
\* for it no temporary directory is made, the downloader is never called and
\* the engine is neither initialized nor called.
C2_UnauthorizedRejected ==
  /\ [][\A r \in Reqs :
          (pc[r] = "validate" /\ pc'[r] # "validate" /\ C2_Unauthorized(authorization[r]))
            => /\ pc'[r] = "done"
               /\ status'[r] = 401
               /\ C2_NothingDone(r)'
               /\ constructions' = constructions
               /\ asr_pipeline' = asr_pipeline]_vars
  /\ [](\A r \in Reqs : status[r] = 401 => (pc[r] = "done" /\ C2_NothingDone(r)))

C2_Witness ==
  \E r, q \in Reqs :
    /\ pc[r] = "done" /\ status[r] = 401
    /\ pc[q] = "done" /\ status[q] = 200

\* C3: when the download completes and the source duration (from the metadata,
\* or probed from the WAV) exceeds 900 seconds, the response is 400 and the
\* engine is never called for the request; exactly 900 seconds is not rejected.
C3_OverLimitRejected ==
  \A r \in Reqs :
    /\ (~IsNone(duration[r]) /\ ValOf(duration[r]) > MAX_DURATION_SECONDS)
         => /\ pc[r] \in {"except", "finally"}
            /\ exc[r] = HTTPException(400)
            /\ cause[r] = "duration"
    /\ cause[r] = "duration"
         => /\ asrCalls[r] = 0 /\ usedInstance[r] = 0
            /\ pc[r] \in {"except", "finally", "done"}
            /\ pc[r] = "done" => status[r] = 400
    /\ (~IsNone(duration[r]) /\ ValOf(duration[r]) <= MAX_DURATION_SECONDS)
         => (cause[r] # "duration" /\ exc[r].code # 400 /\ ~IsNone(wav_path[r]))

C3_Witness ==
  \E r, q \in Reqs :
    /\ pc[r] = "done" /\ status[r] = 400 /\ cause[r] = "duration"
    /\ pc[q] = "respond" /\ duration[q] = Some(MAX_DURATION_SECONDS)

\* the status the claim assigns to the first failure of a request
C4_StatusFor(c) ==
  CASE c = "auth" -> 401
    [] c = "download" -> 404
    [] c = "duration" -> 400
    [] c \in {"download_other", "no_wav", "probe", "engine_init", "engine"} -> 500
    [] c = "none" -> 200

\* C4: every request ends with exactly one outcome, set by its first failure:
\* 401 for a bad token, 404 when the downloader fails, 400 when the duration
\* exceeds the limit, 500 for any other failure, 200 only when nothing failed;
\* no failure leaves the handler unmapped.
C4_FailureMapping ==
  \A r \in Reqs :
    /\ pc[r] = "done" => status[r] = C4_StatusFor(cause[r])
    /\ pc[r] # "done" => status[r] = 0
    /\ pc[r] \in {"except", "finally"} /\ cause[r] # "none" => exc[r] # NoExc

C4_Witness ==
  \E r, q \in Reqs :
    /\ pc[r] = "done" /\ status[r] = 404 /\ cause[r] = "download"
    /\ pc[q] = "done" /\ status[q] = 500 /\ cause[q] = "no_wav"

\* C5 as stated: the downloader is called at most once per request, no call
\* follows a failed one, and the engine is called at most once per request.
C5_NoRetry ==
  \A r \in Reqs : dlCalls[r] <= 1 /\ asrCalls[r] <= 1

\* C5 amended: the downloader is called at most twice per request, the second
\* call (with the bare video id) only after the first (with the URL) raised;
\* nothing follows a failed second call; the engine is called at most once.
C5_OneFallback ==
  \A r \in Reqs :
    /\ dlCalls[r] <= 2
    /\ dlFailed[r] <= dlCalls[r]
    /\ dlCalls[r] = 2 => dlFailed[r] >= 1
    /\ dlFailed[r] = 2 => (pc[r] \in {"except", "finally", "done"} /\ asrCalls[r] = 0)
    /\ asrCalls[r] <= 1

C5_Witness ==
  \E r \in Reqs : dlCalls[r] = 2 /\ dlFailed[r] = 1 /\ asrCalls[r] = 1 /\ status[r] = 200

Chomp(line) ==
  IF line # <<>> /\ line[Len(line)] = NL THEN SubSeq(line, 1, Len(line) - 1) ELSE line

\* a record: at least 5 tab-separated fields, the fifth an integer
C7_IsRecord(fields) == Len(fields) >= 5 /\ IntParses(fields[5])

\* what the claim says of a record with these fields
C7_Fate(line, fields) ==
  LET expiry == IntOf(fields[5])
  IN IF Contains(fields[1], YT)
       THEN /\ (expiry > 0 /\ expiry <= current_time) => line \notin Range(output_file)
            /\ (expiry = 0 \/ expiry > current_time) => line \in Range(output_file)
       ELSE line \notin Range(output_file)

\* C7 as stated: every line with at least 5 tab-separated fields and an integer
\* fifth field is absent from the output when its domain has .youtube.com and
\* 0 < expiry <= now, present when its domain has .youtube.com and expiry = 0
\* or expiry > now, and absent when its domain lacks .youtube.com.
C7_RecordsFiltered ==
  fpc = "done" =>
    \A i \in 1..Len(input_file) :
      LET fields == SplitOn(Chomp(input_file[i]), TAB)
      IN C7_IsRecord(fields) => C7_Fate(input_file[i], fields)

\* C7 amended: the same, for the lines that do not begin with '#', their
\* fields taken after leading and trailing whitespace is stripped from the line.
C7_NonHeaderRecordsFiltered ==
  fpc = "done" =>
    \A i \in 1..Len(input_file) :
      LET fields == SplitOn(Strip(input_file[i]), TAB)
      IN (Head(input_file[i]) # COMMENT_CHAR /\ C7_IsRecord(fields))
           => C7_Fate(input_file[i], fields)

C7_Witness ==
  /\ fpc = "done"
  /\ input_file = <<CookieLine(<<YT>>, <<"1">>), CookieLine(<<YT>>, <<"1", "0">>)>>
  /\ current_time = 1
  /\ output_file = <<CookieLine(<<YT>>, <<"1", "0">>)>>

RECURSIVE IsSubsequence(_, _)
IsSubsequence(a, b) ==
  IF a = <<>> THEN TRUE
  ELSE IF b = <<>> THEN FALSE
  ELSE IF Head(a) = Head(b) THEN IsSubsequence(Tail(a), Tail(b))
  ELSE IsSubsequence(a, Tail(b))

C8_StartsWithHash(line) == line # <<>> /\ Head(line) = COMMENT_CHAR

\* C8 as stated: every line beginning with '#' is in the output unchanged and
\* in its order, and the output is a subsequence of the input's lines.
C8_OutputIsSubsequence ==
  fpc = "done" =>
    /\ SelectSeq(output_file, C8_StartsWithHash) = SelectSeq(input_file, C8_StartsWithHash)
    /\ IsSubsequence(output_file, input_file)

C8_NotHash(line) == ~C8_StartsWithHash(line)

\* C8 amended: the output is the input's '#' lines, unchanged and in their
\* order, followed by retained other lines in their order: a comment that
\* followed a retained record in the input precedes it in the output.
C8_HeadersThenCookies ==
  fpc = "done" =>
    LET headers == SelectSeq(input_file, C8_StartsWithHash)
        rest == SubSeq(output_file, Len(headers) + 1, Len(output_file))
    IN /\ Len(output_file) >= Len(headers)
       /\ SubSeq(output_file, 1, Len(headers)) = headers
       /\ IsSubsequence(rest, SelectSeq(input_file, C8_NotHash))
       /\ \A i \in 1..Len(rest) : C8_NotHash(rest[i])

C8_Witness ==
  /\ fpc = "done"
  /\ input_file = <<CookieLine(<<YT>>, <<"0">>), <<COMMENT_CHAR, " ", "x", NL>>>>
  /\ output_file = <<<<COMMENT_CHAR, " ", "x", NL>>, CookieLine(<<YT>>, <<"0">>)>>

\* C9: the printed Active count is the number of non-header lines written, and
\* the printed Expired count is the number of input records whose expiry has
\* passed (0 < expiry <= now); a record dropped only for its domain is not
\* counted as expired.
C9_CountsMatch ==
  fpc = "done" =>
    /\ printed.active = Len(SelectSeq(output_file, C8_NotHash))
    /\ printed.expired =
         Cardinality({i \in 1..Len(input_file) :
           LET fields == SplitOn(Strip(input_file[i]), TAB)
           IN /\ C8_NotHash(input_file[i])
              /\ C7_IsRecord(fields)
              /\ IntOf(fields[5]) > 0
              /\ IntOf(fields[5]) <= current_time})

(* ------------------------ claims: cookie store loader ------------------ *)
C10_Token(tokens, i) == IF i <= Len(tokens) THEN tokens[i] ELSE <<>>

\* tokens 1 to 5 joined by tabs, a tab, token 6, a tab, the rest joined by spaces
C10_Rewrite(tokens) ==
  Join(Take(tokens, 5), <<TAB>>) \o <<TAB>> \o C10_Token(tokens, 6) \o <<TAB>>
    \o Join(Drop(tokens, 6), <<" ">>)

\* neither blank nor a comment
C10_IsRecordLine(line) == LET t == Strip(line) IN t # <<>> /\ Head(t) # COMMENT_CHAR

\* a non-blank, non-comment line among the first 10 has a tab
C10_SampleHasTab(lines) ==
  \E i \in 1..Len(lines) : i <= SampleLines /\ C10_IsRecordLine(lines[i]) /\ Contains(lines[i], TAB)

\* the claim's parts that do not depend on how a record line is rewritten
C10_Frame(rewrite(_)) ==
  lpc = "done" =>
    LET lines == SplitOn(youtube_cookies, NL)
        written == SplitOn(ValOf(cookie_file), NL)
    IN IF C10_SampleHasTab(lines)
         THEN ValOf(cookie_file) = youtube_cookies
         ELSE /\ Len(written) = Len(lines)
              /\ \A i \in 1..Len(lines) :
                   IF C10_IsRecordLine(lines[i])
                     THEN /\ written[i] = rewrite(lines[i])
                          /\ Len(SplitWs(lines[i])) >= 7
                               => Len(SplitOn(written[i], TAB)) = 7
                     ELSE written[i] = lines[i]
              /\ Restore(ValOf(cookie_file)) = ValOf(cookie_file)

C10_RewriteEvery(line) == C10_Rewrite(SplitWs(line))

\* C10 as stated: with no tab in the sampled lines every non-blank non-comment
\* line is rewritten as tokens 1-5 joined by tabs, tab, token 6, tab, the rest
\* joined by spaces (7 fields for 7 tokens or more), other lines are unchanged
\* and a second rewrite changes nothing; with a tab in a sampled line the
\* content is written unchanged.
C10_EveryLineRewritten == C10_Frame(C10_RewriteEvery)

C10_RewriteByTokens(line) ==
  LET tokens == SplitWs(line)
  IN IF Len(tokens) >= 7 THEN C10_Rewrite(tokens)
     ELSE IF Len(tokens) = 6 THEN Join(tokens, <<TAB>>)
     ELSE line

\* C10 amended: the same, except that a line with exactly 6 tokens becomes its
\* 6 tokens joined by tabs (no trailing tab) and a line with fewer than 6
\* tokens is written unchanged.
C10_LinesRewrittenByTokens == C10_Frame(C10_RewriteByTokens)

C10_Witness ==
  /\ lpc = "done"
  /\ ~has_tabs
  /\ \E i \in 1..Len(SplitOn(youtube_cookies, NL)) :
       /\ i > SampleLines
       /\ SplitOn(youtube_cookies, NL)[i] = <<"a", TAB>> \o Spaced(<<"b", "c", "d", "e", "f", "g", "h">>)
       /\ SplitOn(ValOf(cookie_file), NL)[i] =
            <<"a", TAB, "b", TAB, "c", TAB, "d", TAB, "e", TAB, "f", TAB, "g", " ", "h">>

====
